---- MODULE Spec2Model ----
(***************************************************************************)
(* A model of the ERDB driver (erdb.py) and of the generator selector      *)
(* enumeration (scripts/erdb_generators/__init__.py).                      *)
(*                                                                         *)
(* The driver expands the requested selectors, then for each generator     *)
(* loads the previous output document, merges every extracted row into it, *)
(* validates the document against its schema and writes it back.           *)
(*                                                                         *)
(* JSON values are tagged records: Num(n), Str(s), Dict(f), where f is a   *)
(* function from key names to JSON values.  An untagged function is the    *)
(* body of a Python dict.                                                  *)
(***************************************************************************)
EXTENDS Integers, Sequences, FiniteSets, Bags, TLC

VARIABLES
    pc,               \* position of main(): "main", "loop", "rows", or a final state
    generate_arg,     \* args.generate: the list of requested selectors
    find_values,      \* args.find_values, as a sequence of characters (<<>>: not given)
    main_param,       \* gendata.main_param: the table of extracted rows
    files,            \* the output directory: file name -> document, or NoFile
    generators,       \* the list returned by get_generators
    gi,               \* index in generators of the generator being run
    ri,               \* index in main_param of the next row of the running generate
    item_data_full,   \* the document held by the running generate
    prev_item_data,   \* the entities before the last merged row (history)
    ok,               \* the last value returned by validate_and_write
    log,              \* the generators started, the files written, the diagnostic run (history)
    sel_args,         \* selector study: the requested selectors
    sel_list,         \* selector study: the last list returned
    sel_lookup        \* selector study: the last table lookup

drvVars == <<pc, generate_arg, find_values, main_param, files, generators, gi, ri,
             item_data_full, prev_item_data, ok, log>>
selVars == <<sel_args, sel_list, sel_lookup>>
vars == <<pc, generate_arg, find_values, main_param, files, generators, gi, ri,
          item_data_full, prev_item_data, ok, log, sel_args, sel_list, sel_lookup>>

----------------------------------------------------------------------------
(* Bounds *)

\* rows of a parameter table
MaxRows == 2
\* scalar values 1..MaxScalar in the merged objects
MaxScalar == 2
\* length of the lists of requested selectors enumerated in the selector study
MaxArgs == 1

----------------------------------------------------------------------------
(* JSON values *)

Num(n) == [t |-> "num", v |-> n]
Str(s) == [t |-> "str", v |-> s]
Dict(f) == [t |-> "dict", v |-> f]
IsDict(x) == x.t = "dict"
EmptyDict == <<>>
NoFile == [t |-> "nofile"]

Range(s) == {s[i] : i \in 1..Len(s)}

----------------------------------------------------------------------------
(* The selector enumerations *)

ALL == "all"

\* class Generator(Enum), in declaration order
GeneratorMembers ==
    <<"all", "armaments", "armor", "ashes-of-war", "correction-graph",
      "reinforcements", "spirit-ashes", "talismans">>
Generator == Range(GeneratorMembers)

\* class GameParam(Enum), in declaration order
GameParamMembers ==
    <<"all", "armaments", "armor", "ashes-of-war", "correction-attack",
      "correction-graph", "reinforcements", "spirit-ashes", "talismans", "spells",
      "tools", "crafting-materials", "bolstering-materials", "keys", "ammo", "shop",
      "info">>
GameParam == Range(GameParamMembers)

KeyError == "KeyError"

\* the dict literal of GameParam.stem
stem_table ==
    [p \in GameParam \ {ALL} |->
        CASE p = "armaments" -> "EquipParamWeapon"
          [] p = "armor" -> "EquipParamProtector"
          [] p = "ashes-of-war" -> "EquipParamGem"
          [] p = "correction-attack" -> "AttackElementCorrectParam"
          [] p = "correction-graph" -> "CalcCorrectGraph"
          [] p = "reinforcements" -> "ReinforceParamWeapon"
          [] p = "talismans" -> "EquipParamAccessory"
          [] p = "ammo" -> "EquipParamWeapon"
          [] OTHER -> "EquipParamGoods"]

\* GameParam.stem: the table indexed by self
stem(p) == IF p \in DOMAIN stem_table THEN stem_table[p] ELSE KeyError

\* the dict literal of GameParam.generator
generator_table ==
    [p \in GameParam \ {ALL} |->
        CASE p = "armaments" -> "ArmamentGeneratorData"
          [] p = "armor" -> "ArmorGeneratorData"
          [] p = "ashes-of-war" -> "AshOfWarGeneratorData"
          [] p = "correction-attack" -> "CorrectionAttackGeneratorData"
          [] p = "correction-graph" -> "CorrectionGraphGeneratorData"
          [] p = "reinforcements" -> "ReinforcementGeneratorData"
          [] p = "spirit-ashes" -> "SpiritAshGeneratorData"
          [] p = "talismans" -> "TalismanGeneratorData"
          [] p = "spells" -> "SpellGeneratorData"
          [] p = "tools" -> "ToolGeneratorData"
          [] p = "crafting-materials" -> "CraftingMaterialGeneratorData"
          [] p = "bolstering-materials" -> "BolsteringMaterialGeneratorData"
          [] p = "keys" -> "KeyGeneratorData"
          [] p = "ammo" -> "AmmoGeneratorData"
          [] p = "shop" -> "ShopGeneratorData"
          [] OTHER -> "InfoGeneratorData"]

\* GameParam.generator: the table indexed by self
generator(p) == IF p \in DOMAIN generator_table THEN generator_table[p] ELSE KeyError

\* _GENERATORS without the entry of the last selector
GENERATORS_missing_entry ==
    [g \in Generator \ {ALL, "talismans"} |-> "GeneratorData"]

\* _GENERATORS of the driver
GENERATORS ==
    [g \in Generator \ {ALL} |->
        CASE g = "armaments" -> "ArmamentGeneratorData"
          [] g = "armor" -> "ArmorGeneratorData"
          [] g = "ashes-of-war" -> "AshOfWarGeneratorData"
          [] g = "correction-graph" -> "CorrectionGraphGeneratorData"
          [] g = "reinforcements" -> "ReinforcementGeneratorData"
          [] g = "spirit-ashes" -> "SpiritAshGeneratorData"
          [] OTHER -> "TalismanGeneratorData"]

\* _GENERATORS[gen] in main
driver_generator(g) == IF g \in DOMAIN GENERATORS THEN GENERATORS[g] ELSE KeyError

----------------------------------------------------------------------------
(* Sets turned into lists.  list(s) enumerates the set s in its iteration  *)
(* order, which the hashes of the members decide; the hash of a member of  *)
(* an Enum is the hash of its name, a string hash the process draws a seed *)
(* for.  Any order of the members can come out.                            *)

RECURSIVE list_of(_)
\* list(s): the lists list(s) can return, each member of s once, in any order
list_of(s) ==
    IF s = {}
    THEN {<<>>}
    ELSE UNION {{<<x>> \o l : l \in list_of(s \ {x})} : x \in s}

\* get_generators with ALL kept in the set
get_generators_keep_all(generate) ==
    LET requested == Range(generate)
    IN  list_of(IF ALL \in requested THEN requested \cup Generator ELSE requested)

\* get_generators(args): the lists it can return
get_generators(generate) ==
    LET requested == Range(generate)
        expanded == IF ALL \in requested
                    THEN (requested \cup Generator) \ {ALL}
                    ELSE requested
    IN  list_of(expanded)

\* GameParam.effective(): the list it returns, as the bag of its elements
\* (the sixteen members come out in any order)
effective == SetToBag(GameParam \ {ALL})

----------------------------------------------------------------------------
(* The generator contract (GeneratorDataBase).  The generator classes are  *)
(* collaborators outside erdb.py; each attribute is a table by selector.   *)

\* gendata.output_file()
output_file(g) == g \o ".json"

\* gendata.schema_file()
schema_file(g) == g \o ".schema.json"

\* gendata.element_name()
element_name(g) ==
    CASE g = "armaments" -> "Armaments"
      [] g = "armor" -> "Armor"
      [] g = "ashes-of-war" -> "AshesOfWar"
      [] g = "correction-graph" -> "CorrectionGraph"
      [] g = "reinforcements" -> "Reinforcements"
      [] g = "spirit-ashes" -> "SpiritAshes"
      [] OTHER -> "Talismans"

\* gendata.require_patching()
require_patching(g) == g \notin {"correction-graph", "reinforcements"}

\* gendata.schema_properties: the properties the entity schema declares
schema_properties(g) == {"a", "b"}

\* the properties the entity schema requires
schema_required(g) == {"a"}

----------------------------------------------------------------------------
(* Nested merge and key patching (scripts.erdb_common)                     *)

RECURSIVE update_nested(_, _)
\* update_nested(d, u): overlay u onto d; a dict of u is merged into the dict
\* d holds under the same key (into an empty dict when d holds none), any
\* other value of u replaces the value of d
update_nested(d, u) ==
    [k \in DOMAIN d \cup DOMAIN u |->
        IF k \notin DOMAIN u THEN d[k]
        ELSE IF IsDict(u[k])
             THEN Dict(update_nested(
                      IF k \in DOMAIN d /\ IsDict(d[k]) THEN d[k].v ELSE EmptyDict,
                      u[k].v))
             ELSE u[k]]

\* patch_keys(obj, schema_properties): keep the declared keys only
patch_keys(obj, properties) == [k \in DOMAIN obj \cap properties |-> obj[k]]

----------------------------------------------------------------------------
(* generate and validate_and_write                                         *)

\* f"../schema/{gendata.schema_file()}"
schema_pointer(g) == "../schema/" \o schema_file(g)

\* generate's load that sets $schema only in a document that has none
generate_load_keep_schema(file, g) ==
    LET full == IF file /= NoFile THEN file ELSE (element_name(g) :> Dict(EmptyDict))
    IN  [k \in DOMAIN full \cup {"$schema"} |->
            IF k \in DOMAIN full THEN full[k] ELSE Str(schema_pointer(g))]

\* the load of the previous output, or the new document, with its $schema set
generate_load(file, g) ==
    LET full == IF file /= NoFile THEN file ELSE (element_name(g) :> Dict(EmptyDict))
    IN  [k \in DOMAIN full \cup {"$schema"} |->
            IF k = "$schema" THEN Str(schema_pointer(g)) ELSE full[k]]

\* item_data_full[gendata.element_name()]
item_data_of(full, g) == full[element_name(g)].v

\* a lookup that always yields the default
get_always_default(item_data, key_name) == EmptyDict

\* item_data.get(key_name, {})
get(item_data, key_name) ==
    IF key_name \in DOMAIN item_data THEN item_data[key_name].v ELSE EmptyDict

\* the row loop storing the new object in place of the merged one
generate_row_store_new(item_data, g, key_name, new_obj) ==
    LET patched == IF require_patching(g)
                   THEN patch_keys(new_obj, schema_properties(g))
                   ELSE new_obj
    IN  [k \in DOMAIN item_data \cup {key_name} |->
            IF k = key_name THEN Dict(patched) ELSE item_data[k]]

\* the row loop merging the current object onto the new one
generate_row_swapped(item_data, g, key_name, new_obj) ==
    LET cur_obj == get(item_data, key_name)
        merged == update_nested(new_obj, cur_obj)
        patched == IF require_patching(g)
                   THEN patch_keys(merged, schema_properties(g))
                   ELSE merged
    IN  [k \in DOMAIN item_data \cup {key_name} |->
            IF k = key_name THEN Dict(patched) ELSE item_data[k]]

\* the row loop patching only the entities the document already held
generate_row_patch_existing(item_data, g, key_name, new_obj) ==
    LET cur_obj == get(item_data, key_name)
        merged == update_nested(cur_obj, new_obj)
        patched == IF require_patching(g) /\ key_name \in DOMAIN item_data
                   THEN patch_keys(merged, schema_properties(g))
                   ELSE merged
    IN  [k \in DOMAIN item_data \cup {key_name} |->
            IF k = key_name THEN Dict(patched) ELSE item_data[k]]

\* the row loop patching whatever the generator requires
generate_row_always_patch(item_data, g, key_name, new_obj) ==
    LET cur_obj == get(item_data, key_name)
        merged == update_nested(cur_obj, new_obj)
    IN  [k \in DOMAIN item_data \cup {key_name} |->
            IF k = key_name
            THEN Dict(patch_keys(merged, schema_properties(g)))
            ELSE item_data[k]]

\* the body of the row loop of generate: item_data after the row
generate_row(item_data, g, key_name, new_obj) ==
    LET cur_obj == get(item_data, key_name)
        merged == update_nested(cur_obj, new_obj)
        patched == IF require_patching(g)
                   THEN patch_keys(merged, schema_properties(g))
                   ELSE merged
    IN  [k \in DOMAIN item_data \cup {key_name} |->
            IF k = key_name THEN Dict(patched) ELSE item_data[k]]

\* jsonschema.validate: every entity holds the required properties
validate(data, g) ==
    \A k \in DOMAIN item_data_of(data, g) :
        schema_required(g) \subseteq DOMAIN item_data_of(data, g)[k].v

\* validate_and_write writing in the try block, after the validation
validate_and_write_in_try(file, data, g) ==
    [ok |-> validate(data, g), file |-> IF validate(data, g) THEN data ELSE file]

\* validate_and_write: the value returned and the file left behind
validate_and_write(file, data, g) == [ok |-> validate(data, g), file |-> data]

\* generate without its assertion
generate_assert_dropped(is_ok) == "loop"

\* what generate does with the value returned
generate_assert(is_ok) == IF is_ok THEN "loop" ELSE "AssertionError"

RECURSIVE split(_, _)
\* str.split(sep) on a sequence of characters
split(s, sep) ==
    IF \A i \in 1..Len(s) : s[i] /= sep
    THEN <<s>>
    ELSE LET i == CHOOSE j \in 1..Len(s) :
                      s[j] = sep /\ \A h \in 1..(j - 1) : s[h] /= sep
         IN  <<SubSeq(s, 1, i - 1)>> \o split(SubSeq(s, i + 1, Len(s)), sep)

----------------------------------------------------------------------------
(* main                                                                     *)

Idle == [t |-> "none"]

\* lines 114-121: the arguments are parsed and the selectors expanded
MainStart ==
    /\ pc = "main"
    /\ generators' \in get_generators(generate_arg)
    /\ gi' = 1
    /\ pc' = "loop"
    /\ UNCHANGED <<generate_arg, find_values, main_param, files, ri, item_data_full,
                   prev_item_data, ok, log>>

\* lines 121-124 and 63-76: the next generator is constructed, its previous
\* output loaded
GenerateStart ==
    /\ pc = "loop"
    /\ gi <= Len(generators)
    /\ LET gen == generators[gi]
       IN  IF driver_generator(gen) = KeyError
           THEN /\ pc' = KeyError
                /\ UNCHANGED <<ri, item_data_full, prev_item_data, log>>
           ELSE /\ item_data_full' = generate_load(files[output_file(gen)], gen)
                /\ prev_item_data' = item_data_of(item_data_full', gen)
                /\ ri' = 1
                /\ log' = Append(log, [op |-> "generate", arg |-> gen])
                /\ pc' = "rows"
    /\ UNCHANGED <<generate_arg, find_values, main_param, files, generators, gi, ok>>

\* lines 78-87: one row is merged into the document
GenerateRow ==
    /\ pc = "rows"
    /\ ri <= Len(main_param)
    /\ LET gen == generators[gi]
           row == main_param[ri]
           item_data == item_data_of(item_data_full, gen)
       IN  /\ prev_item_data' = item_data
           /\ item_data_full' =
                  [item_data_full EXCEPT ![element_name(gen)] =
                      Dict(generate_row(item_data, gen, row.key, row.obj))]
    /\ ri' = ri + 1
    /\ UNCHANGED <<pc, generate_arg, find_values, main_param, files, generators, gi,
                   ok, log>>

\* lines 89-95: the document is validated and written, and the run asserts
GenerateFinish ==
    /\ pc = "rows"
    /\ ri > Len(main_param)
    /\ LET gen == generators[gi]
           res == validate_and_write(files[output_file(gen)], item_data_full, gen)
       IN  /\ ok' = res.ok
           /\ files' = [files EXCEPT ![output_file(gen)] = res.file]
           /\ log' = Append(log, [op |-> "write", arg |-> output_file(gen)])
           /\ pc' = generate_assert(res.ok)
           /\ gi' = IF pc' = "loop" THEN gi + 1 ELSE gi
    /\ UNCHANGED <<generate_arg, find_values, main_param, generators, ri,
                   item_data_full, prev_item_data>>

\* lines 126-129: the find-values diagnostic
MainFindValues ==
    /\ pc = "loop"
    /\ gi > Len(generators)
    /\ IF find_values /= <<>>
       THEN IF Len(split(find_values, ":")) = 2
            THEN /\ log' = Append(log, [op |-> "find_values", arg |-> find_values])
                 /\ pc' = "done"
            ELSE /\ pc' = "AssertionError"
                 /\ UNCHANGED log
       ELSE /\ pc' = "done"
            /\ UNCHANGED log
    /\ UNCHANGED <<generate_arg, find_values, main_param, files, generators, gi, ri,
                   item_data_full, prev_item_data, ok>>

Next ==
    \/ MainStart /\ UNCHANGED selVars
    \/ GenerateStart /\ UNCHANGED selVars
    \/ GenerateRow /\ UNCHANGED selVars
    \/ GenerateFinish /\ UNCHANGED selVars
    \/ MainFindValues /\ UNCHANGED selVars

----------------------------------------------------------------------------
(* The inputs of the driver                                                 *)

OutputFiles == {output_file(g) : g \in Generator \ {ALL}}

\* entity identifiers produced by get_key_name
KeyNames == {"k1", "k2"}

\* objects produced by construct_object
RowObjs ==
    { [a |-> Num(2)],
      [b |-> Dict([y |-> Num(2)]), c |-> Num(3)],
      [a |-> Num(1), b |-> Num(2)] }

Rows(objs) == [key : KeyNames, obj : objs]
Tables == UNION {[1..n -> Rows(RowObjs)] : n \in 0..MaxRows}

\* an entity of an earlier run, curated by hand since: "b" holds a curated
\* value the schema declares, "c" a curated value it does not declare
CuratedObj == [a |-> Num(1), b |-> Dict([x |-> Num(1)]), c |-> Num(1)]

\* the output of an earlier run, with the schema pointer of that time
ExistingDoc(g, item_data) ==
    ("$schema" :> Str("../schemas/" \o g \o ".json")) @@ (element_name(g) :> Dict(item_data))

NoFiles == [f \in OutputFiles |-> NoFile]
WithFile(fs, g, item_data) ==
    [fs EXCEPT ![output_file(g)] = ExistingDoc(g, item_data)]

InitialFiles ==
    LET curated == ("k1" :> Dict(CuratedObj))
    IN  { NoFiles,
          WithFile(NoFiles, "armor", curated),
          WithFile(NoFiles, "reinforcements", curated),
          WithFile(WithFile(NoFiles, "armor", curated), "reinforcements", curated) }

\* requests of single categories
DriverArgs ==
    { <<>>, <<"armor">>, <<"reinforcements", "armor">>,
      <<"talismans", "armor", "talismans">> }

\* the tables extracted for a request of all categories
AllTables ==
    { <<[key |-> "k1", obj |-> [a |-> Num(2)]]>>,
      <<[key |-> "k1", obj |-> [b |-> Dict([y |-> Num(2)]), c |-> Num(3)]]>> }

FindValuesArgs == { <<>>, <<"P", ":", "F">>, <<"P", "F">> }

SelIdle ==
    /\ sel_args = <<>>
    /\ sel_list = <<>>
    /\ sel_lookup = Idle

DrvStart ==
    /\ pc = "main"
    /\ generators = <<>>
    /\ gi = 0
    /\ ri = 0
    /\ item_data_full = Idle
    /\ prev_item_data = EmptyDict
    /\ ok = TRUE
    /\ log = <<>>

Init ==
    /\ \/ /\ generate_arg \in DriverArgs
          /\ find_values \in FindValuesArgs
          /\ main_param \in Tables
          /\ files \in InitialFiles
       \/ /\ generate_arg = <<ALL>>
          /\ find_values = <<"P", ":", "F">>
          /\ main_param \in AllTables
          /\ files = WithFile(WithFile(NoFiles, "armor", ("k1" :> Dict(CuratedObj))),
                              "reinforcements", ("k1" :> Dict(CuratedObj)))
    /\ DrvStart
    /\ SelIdle

Spec == Init /\ [][Next]_vars

----------------------------------------------------------------------------
(* The merge on bounded objects: one generator, one entity, the same row    *)
(* extracted twice                                                          *)

ScalarVals == {Num(n) : n \in 1..MaxScalar}
FlatObjs(keys) == UNION {[s -> ScalarVals] : s \in SUBSET keys}
NestedVals == {Dict(f) : f \in FlatObjs({"x", "y"})}

\* "a" and "c" hold scalars, "b" a scalar or a nested object
FieldVals(k) == IF k = "b" THEN ScalarVals \cup NestedVals ELSE ScalarVals

ExampleCur == [a |-> Num(1), b |-> Dict([x |-> Num(1)])]
ExampleNew == [b |-> Dict([y |-> Num(2)]), c |-> Num(3)]
DeepCur == [b |-> Dict([x |-> Dict([x |-> Num(1)]), y |-> Num(1)])]
DeepNew == [b |-> Dict([x |-> Dict([y |-> Num(2)]), y |-> Dict(EmptyDict)])]

MergeObjs ==
    UNION { {f \in [s -> ScalarVals \cup NestedVals] : \A k \in s : f[k] \in FieldVals(k)} :
            s \in SUBSET {"a", "b", "c"} }
        \cup {ExampleCur, ExampleNew, DeepCur, DeepNew}

InitMerge ==
    /\ \E g \in {"armor", "reinforcements"} :
           /\ generate_arg = <<g>>
           /\ \/ files = NoFiles
              \/ files = WithFile(NoFiles, g, EmptyDict)
              \/ \E cur \in MergeObjs : files = WithFile(NoFiles, g, ("k1" :> Dict(cur)))
    /\ \E new \in MergeObjs :
           main_param = <<[key |-> "k1", obj |-> new], [key |-> "k1", obj |-> new]>>
    /\ find_values = <<>>
    /\ DrvStart
    /\ SelIdle

SpecMerge == InitMerge /\ [][Next]_vars

----------------------------------------------------------------------------
(* The selectors on their own: expansion of a request, and the lookups of   *)
(* the tables of GameParam and of the driver                                *)

SelFresh == sel_list = <<>> /\ sel_lookup = Idle

SelGetGenerators ==
    /\ SelFresh
    /\ \E l \in get_generators(sel_args) :
           sel_list' = [op |-> "get_generators", list |-> l]
    /\ UNCHANGED <<sel_args, sel_lookup>>

SelEffective ==
    /\ SelFresh
    /\ sel_list' = [op |-> "effective", list |-> effective]
    /\ UNCHANGED <<sel_args, sel_lookup>>

SelStem ==
    /\ SelFresh
    /\ \E p \in GameParam : sel_lookup' = [op |-> "stem", i |-> 0, of |-> p, res |-> stem(p)]
    /\ UNCHANGED <<sel_args, sel_list>>

SelGenerator ==
    /\ SelFresh
    /\ \E p \in GameParam :
           sel_lookup' = [op |-> "generator", i |-> 0, of |-> p, res |-> generator(p)]
    /\ UNCHANGED <<sel_args, sel_list>>

\* the loop of main: the selectors of the list get_generators returned are
\* looked up in _GENERATORS one after another, in the order of the list; a
\* failed lookup ends the run
SelDriver ==
    /\ sel_list /= <<>>
    /\ sel_list.op = "get_generators"
    /\ sel_lookup /= Idle => sel_lookup.res /= KeyError
    /\ LET i == IF sel_lookup = Idle THEN 1 ELSE sel_lookup.i + 1
       IN  /\ i <= Len(sel_list.list)
           /\ sel_lookup' = [op |-> "driver", i |-> i, of |-> sel_list.list[i],
                             res |-> driver_generator(sel_list.list[i])]
    /\ UNCHANGED <<sel_args, sel_list>>

\* args.generate: nargs="+" over the choices, [] by default
ArgLists ==
    UNION {[1..n -> Generator] : n \in 0..MaxArgs}
        \cup { <<"armor", "armor">>, <<"reinforcements", "armor">>, <<ALL, "armor">>,
               <<"talismans", "armor", "talismans">> }

InitSelect ==
    /\ sel_args \in ArgLists
    /\ sel_list = <<>>
    /\ sel_lookup = Idle
    /\ generate_arg = <<>>
    /\ find_values = <<>>
    /\ main_param = <<>>
    /\ files = NoFiles
    /\ DrvStart

NextSelect ==
    \/ SelGetGenerators /\ UNCHANGED drvVars
    \/ SelEffective /\ UNCHANGED drvVars
    \/ SelStem /\ UNCHANGED drvVars
    \/ SelGenerator /\ UNCHANGED drvVars
    \/ SelDriver /\ UNCHANGED drvVars

SpecSelect == InitSelect /\ [][NextSelect]_vars

----------------------------------------------------------------------------
(* Vocabulary of the properties                                             *)

RECURSIVE RefMerge(_, _)
\* the reference deep merge: the keys that hold an object on both sides are
\* merged, every other key of n takes n's value, the rest keeps c's
RefMerge(c, n) ==
    LET both == {k \in DOMAIN c \cap DOMAIN n : IsDict(c[k]) /\ IsDict(n[k])}
    IN  [k \in both |-> Dict(RefMerge(c[k].v, n[k].v))] @@ n @@ c

Restrict(f, keys) == [k \in DOMAIN f \cap keys |-> f[k]]
NoDuplicates(s) == \A i, j \in 1..Len(s) : s[i] = s[j] => i = j

LastOp == IF log = <<>> THEN "none" ELSE log[Len(log)].op
Started == {i \in 1..Len(log) : log[i].op = "generate"}
\* the generator generate was last called for
LastGen == log[CHOOSE i \in Started : \A j \in Started : j <= i].arg

InRows == pc = "rows"
RunningGen == generators[gi]
\* the entities generate loaded, and those it holds now
Loaded ==
    IF files[output_file(RunningGen)] = NoFile
    THEN EmptyDict
    ELSE item_data_of(files[output_file(RunningGen)], RunningGen)
Current == item_data_of(item_data_full, RunningGen)
\* the objects of the rows merged so far under key k, in iteration order
MergedRows(k) ==
    LET idx == SelectSeq([i \in 1..(ri - 1) |-> i], LAMBDA i : main_param[i].key = k)
    IN  [j \in 1..Len(idx) |-> main_param[idx[j]].obj]
Produced(k) == UNION {DOMAIN MergedRows(k)[j] : j \in 1..Len(MergedRows(k))}

\* the last merged row, the object it met and the object it left
LastRow == main_param[ri - 1]
LastCur == get(prev_item_data, LastRow.key)
LastRes == Current[LastRow.key].v

----------------------------------------------------------------------------
(* Properties                                                               *)

\* C1: when the document generate hands to validate_and_write does not
\* validate, the call returns False and the output file holds exactly that
\* document.
C1_WriteOnFailure ==
    (LastOp = "write" /\ ~validate(item_data_full, LastGen))
        => /\ ok = FALSE
           /\ files[output_file(LastGen)] = item_data_full

\* C1 witness: a written file one of whose entities lacks the required
\* property, after a call that returned False.
C1_Witness ==
    /\ LastOp = "write"
    /\ ok = FALSE
    /\ files[output_file(LastGen)] = item_data_full
    /\ \E k \in DOMAIN item_data_of(files[output_file(LastGen)], LastGen) :
           "a" \notin DOMAIN item_data_of(files[output_file(LastGen)], LastGen)[k].v

\* C2 as stated: during generate every loaded entity is still in the
\* document, every field of a loaded entity that no merged row produces is
\* still there with its old value, and every field of the entity is one a
\* row produces or one it had, unchanged.
C2_Original ==
    InRows =>
        \A k \in DOMAIN Loaded :
            /\ k \in DOMAIN Current
            /\ \A f \in DOMAIN Loaded[k].v \ Produced(k) :
                   f \in DOMAIN Current[k].v /\ Current[k].v[f] = Loaded[k].v[f]
            /\ \A f \in DOMAIN Current[k].v \ Produced(k) :
                   f \in DOMAIN Loaded[k].v /\ Current[k].v[f] = Loaded[k].v[f]

\* C2 as amended: the same, except that once a row has been merged into an
\* entity by a generator that requires patching, the fields of that entity
\* outside the schema's declared properties are gone; the declared ones that
\* no row produces keep their old value.
C2_Amended ==
    InRows =>
        \A k \in DOMAIN Loaded :
            LET patchedAway ==
                    IF require_patching(RunningGen) /\ MergedRows(k) /= <<>>
                    THEN DOMAIN Loaded[k].v \ schema_properties(RunningGen)
                    ELSE {}
            IN  /\ k \in DOMAIN Current
                /\ \A f \in (DOMAIN Loaded[k].v \ Produced(k)) \ patchedAway :
                       f \in DOMAIN Current[k].v /\ Current[k].v[f] = Loaded[k].v[f]
                /\ \A f \in patchedAway : f \notin DOMAIN Current[k].v
                /\ \A f \in DOMAIN Current[k].v \ Produced(k) :
                       f \in DOMAIN Loaded[k].v /\ Current[k].v[f] = Loaded[k].v[f]

\* C2 witness: a row was merged into the curated entity by a generator that
\* does not patch; the curated fields "b" and "c", which the row does not
\* produce, are as they were, and the field the row produces is overwritten.
C2_Witness ==
    /\ InRows
    /\ ~require_patching(RunningGen)
    /\ "k1" \in DOMAIN Loaded
    /\ Loaded["k1"].v = CuratedObj
    /\ MergedRows("k1") = <<[a |-> Num(2)]>>
    /\ Current["k1"].v = [a |-> Num(2), b |-> Dict([x |-> Num(1)]), c |-> Num(1)]

\* C3: the object a merged row leaves is the reference deep merge of the
\* object it met and the row's object (cut to the declared properties by a
\* patching generator): it has the keys of both; a key holding an object on
\* both sides holds their merge, any other key of the new object holds the
\* new value, a key of the current object alone keeps its value; merging
\* into the empty object yields the new object; {a:1, b:{x:1}} merged with
\* {b:{y:2}, c:3} is {a:1, b:{x:1, y:2}, c:3}.
C3_DeepMerge ==
    (InRows /\ ri >= 2) =>
        IF require_patching(RunningGen)
        THEN LastRes = Restrict(RefMerge(LastCur, LastRow.obj), schema_properties(RunningGen))
        ELSE /\ LastRes = RefMerge(LastCur, LastRow.obj)
             /\ DOMAIN LastRes = DOMAIN LastCur \cup DOMAIN LastRow.obj
             /\ \A k \in DOMAIN LastRow.obj :
                    IF k \in DOMAIN LastCur /\ IsDict(LastCur[k]) /\ IsDict(LastRow.obj[k])
                    THEN /\ IsDict(LastRes[k])
                         /\ LastRes[k].v = RefMerge(LastCur[k].v, LastRow.obj[k].v)
                    ELSE LastRes[k] = LastRow.obj[k]
             /\ \A k \in DOMAIN LastCur \ DOMAIN LastRow.obj : LastRes[k] = LastCur[k]
             /\ (LastCur = EmptyDict => LastRes = LastRow.obj)
             /\ (LastCur = ExampleCur /\ LastRow.obj = ExampleNew
                    => LastRes = [a |-> Num(1),
                                  b |-> Dict([x |-> Num(1), y |-> Num(2)]),
                                  c |-> Num(3)])

\* C3 witness: the example of the specification has been merged.
C3_Witness ==
    /\ InRows
    /\ ri = 2
    /\ ~require_patching(RunningGen)
    /\ LastCur = ExampleCur
    /\ LastRow.obj = ExampleNew
    /\ LastRes = [a |-> Num(1), b |-> Dict([x |-> Num(1), y |-> Num(2)]), c |-> Num(3)]

\* C4: merging the row that was just merged once more leaves the document
\* as the first merge left it.
C4_Idempotent ==
    (InRows /\ ri >= 3 /\ main_param[ri - 1] = main_param[ri - 2])
        => Current = prev_item_data

\* C4 witness: the same row was merged twice into an entity the first merge
\* changed, in a nested object too.
C4_Witness ==
    /\ InRows
    /\ ri = 3
    /\ main_param[1] = main_param[2]
    /\ "k1" \in DOMAIN Loaded
    /\ Loaded["k1"].v = ExampleCur
    /\ main_param[1].obj = ExampleNew
    /\ Current = prev_item_data
    /\ Current["k1"].v /= ExampleCur

\* C5: a generator that requires patching leaves, after a row, an object with
\* no key outside the declared properties, in which every declared key of the
\* merged object is present with the merged value; a generator that does not
\* require patching leaves the merged object as it is.
C5_PatchKeys ==
    (InRows /\ ri >= 2) =>
        LET merged == RefMerge(LastCur, LastRow.obj)
        IN  IF require_patching(RunningGen)
            THEN /\ DOMAIN LastRes \subseteq schema_properties(RunningGen)
                 /\ \A k \in DOMAIN merged \cap schema_properties(RunningGen) :
                        k \in DOMAIN LastRes /\ LastRes[k] = merged[k]
            ELSE LastRes = merged

\* C5 witness: a patching generator has merged a row into an object that held
\* an undeclared key; the key is gone, the declared ones are there.
C5_Witness ==
    /\ InRows
    /\ ri = 2
    /\ require_patching(RunningGen)
    /\ "c" \in DOMAIN LastCur
    /\ "b" \in DOMAIN LastCur /\ IsDict(LastCur["b"])
    /\ "c" \notin DOMAIN LastRes
    /\ "b" \in DOMAIN LastRes /\ IsDict(LastRes["b"])

\* C6 as stated: no lookup of a stem, of a generator or of the driver's table
\* fails.
C6_Original ==
    sel_lookup /= Idle => sel_lookup.res /= KeyError

\* C6 as amended: the stem and the generator of every selector other than ALL
\* are found, those of ALL are not (the lookup raises KeyError); the driver's
\* table holds every selector get_generators returns.
C6_Amended ==
    sel_lookup /= Idle =>
        IF sel_lookup.op = "driver"
        THEN sel_lookup.res /= KeyError
        ELSE (sel_lookup.res = KeyError) <=> (sel_lookup.of = ALL)

\* C6 witness: the loop of main has looked up all seven selectors of an
\* expanded ALL, the last of them found like the others.
C6_Witness ==
    /\ sel_lookup /= Idle
    /\ sel_lookup.op = "driver"
    /\ ALL \in Range(sel_args)
    /\ sel_lookup.i = 7
    /\ sel_lookup.of = "talismans"
    /\ sel_lookup.res = "TalismanGeneratorData"

\* C7: every file generate has written holds exactly two top-level keys:
\* "$schema", equal to "../schema/" followed by the schema file name, and the
\* element name, an object whose values are objects.
C7_Document ==
    \A i \in 1..Len(log) :
        log[i].op = "write" =>
            \E g \in Generator \ {ALL} :
                /\ log[i].arg = output_file(g)
                /\ files[output_file(g)] /= NoFile
                /\ DOMAIN files[output_file(g)] = {"$schema", element_name(g)}
                /\ files[output_file(g)]["$schema"] = Str("../schema/" \o schema_file(g))
                /\ IsDict(files[output_file(g)][element_name(g)])
                /\ \A k \in DOMAIN files[output_file(g)][element_name(g)].v :
                       IsDict(files[output_file(g)][element_name(g)].v[k])

\* C7 witness: a file that existed before, with another pointer, was written
\* again and holds the curated entity of the earlier file.
C7_Witness ==
    /\ \E i \in 1..Len(log) : log[i] = [op |-> "write", arg |-> "reinforcements.json"]
    /\ files["reinforcements.json"]["$schema"] = Str("../schema/reinforcements.schema.json")
    /\ "k1" \in DOMAIN files["reinforcements.json"]["Reinforcements"].v
    /\ files["reinforcements.json"]["Reinforcements"].v["k1"] = Dict(CuratedObj)

\* C8: the generators run one after another in the order of the list, each
\* started and then written; once a document has failed validation the run
\* has stopped on the assertion right after the write of that document: no
\* later generator has started or written, and the diagnostic has not run.
C8_AbortOrder ==
    /\ \A i \in 1..Len(log) :
           log[i].op /= "find_values" =>
               /\ (i + 1) \div 2 <= Len(generators)
               /\ log[i] = IF i % 2 = 1
                           THEN [op |-> "generate", arg |-> generators[(i + 1) \div 2]]
                           ELSE [op |-> "write", arg |-> output_file(generators[i \div 2])]
    /\ \A i \in 1..Len(log) : log[i].op = "find_values" => i = Len(log) /\ pc = "done"
    /\ ok = FALSE =>
           /\ pc = "AssertionError"
           /\ Len(log) = 2 * gi
           /\ log[Len(log)] = [op |-> "write", arg |-> output_file(generators[gi])]
           /\ files[output_file(generators[gi])] = item_data_full
           /\ ~validate(item_data_full, generators[gi])

\* C8 witness: of the seven generators of a request of all categories the
\* first two validated and the third failed, while the diagnostic was
\* requested; the files of the four others are still absent.
C8_Witness ==
    /\ ok = FALSE
    /\ pc = "AssertionError"
    /\ Len(generators) = 7
    /\ gi = 3
    /\ find_values = <<"P", ":", "F">>
    /\ Len(log) = 6
    /\ \A j \in 4..7 : files[output_file(generators[j])] = NoFile

\* C9: get_generators returns a list without duplicates and without ALL,
\* holding every other selector if ALL was requested and exactly the requested
\* selectors otherwise; effective() returns every selector but ALL, once.
C9_Expansion ==
    sel_list /= <<>> =>
        /\ sel_list.op = "get_generators" =>
               /\ NoDuplicates(sel_list.list)
               /\ ALL \notin Range(sel_list.list)
               /\ Range(sel_list.list) = IF ALL \in Range(sel_args)
                                         THEN Generator \ {ALL}
                                         ELSE Range(sel_args)
        /\ sel_list.op = "effective" =>
               /\ BagToSet(sel_list.list) = GameParam \ {ALL}
               /\ \A p \in BagToSet(sel_list.list) : CopiesIn(p, sel_list.list) = 1

\* C9 witness: ALL was requested along with another selector and expanded to
\* the seven others, in an order that is not the order of declaration.
C9_Witness ==
    /\ sel_list /= <<>>
    /\ sel_list.op = "get_generators"
    /\ sel_args = <<ALL, "armor">>
    /\ sel_list.list = <<"armaments", "correction-graph", "ashes-of-war", "talismans",
                         "reinforcements", "armor", "spirit-ashes">>

RECURSIVE FoldMerge(_, _)
\* the objects objs merged one after another, each into the result of the last
FoldMerge(acc, objs) ==
    IF objs = <<>> THEN acc ELSE FoldMerge(RefMerge(acc, Head(objs)), Tail(objs))

RECURSIVE FoldRows(_, _, _)
\* the same, each result cut to the declared properties before the next
\* merge when the generator g requires patching
FoldRows(acc, objs, g) ==
    IF objs = <<>>
    THEN acc
    ELSE FoldRows(IF require_patching(g)
                  THEN Restrict(RefMerge(acc, Head(objs)), schema_properties(g))
                  ELSE RefMerge(acc, Head(objs)),
                  Tail(objs), g)

\* C10 as stated: the document holds one entry for every loaded key and every
\* key of a merged row and no other; the entity under a key that rows were
\* merged into is the loaded object (the empty one if there was none) merged
\* with the objects of those rows in iteration order, so that the fields of
\* earlier rows are kept.
C10_Original ==
    InRows =>
        /\ DOMAIN Current = DOMAIN Loaded \cup {main_param[i].key : i \in 1..(ri - 1)}
        /\ \A k \in DOMAIN Current :
               MergedRows(k) /= <<>> =>
                   Current[k] = Dict(FoldMerge(get(Loaded, k), MergedRows(k)))

\* C10 as amended: the document holds one entry for every loaded key and
\* every key of a merged row and no other; an entity no row names is the
\* loaded one; under a generator that does not require patching the entity
\* under a key that rows were merged into is the loaded object (the empty one
\* if there was none) merged with the objects of those rows in iteration
\* order; under a generator that requires patching each of those merges is
\* followed by the removal of the keys outside the declared properties, so
\* that only the declared fields of the loaded object and of earlier rows
\* are kept.
C10_Amended ==
    InRows =>
        /\ DOMAIN Current = DOMAIN Loaded \cup {main_param[i].key : i \in 1..(ri - 1)}
        /\ \A k \in DOMAIN Current :
               IF MergedRows(k) = <<>>
               THEN Current[k] = Loaded[k]
               ELSE /\ Current[k] = Dict(FoldRows(get(Loaded, k), MergedRows(k), RunningGen))
                    /\ ~require_patching(RunningGen) =>
                           Current[k] = Dict(FoldMerge(get(Loaded, k), MergedRows(k)))
                    /\ require_patching(RunningGen) =>
                           /\ DOMAIN Current[k].v \subseteq schema_properties(RunningGen)
                           /\ Current[k].v =
                                  Restrict(FoldMerge(get(Loaded, k), MergedRows(k)),
                                           schema_properties(RunningGen))

\* C10 witness: under a patching generator two rows named the same new key;
\* the declared field of the earlier row is kept, its undeclared field is
\* gone, the field of the later row is added, and the key has one entry.
C10_Witness ==
    /\ InRows
    /\ ri = 3
    /\ require_patching(RunningGen)
    /\ Loaded = EmptyDict
    /\ main_param[1] = [key |-> "k2", obj |-> [b |-> Dict([y |-> Num(2)]), c |-> Num(3)]]
    /\ main_param[2] = [key |-> "k2", obj |-> [a |-> Num(2)]]
    /\ Current = ("k2" :> Dict([a |-> Num(2), b |-> Dict([y |-> Num(2)])]))

====
